---- MODULE Spec2Model ----
(***************************************************************************)
(* A model of the disk space visualizer (src/main.py): the reparse-point   *)
(* resolver, the recursive tree builder, the size aggregator, the strip    *)
(* treemap layout and the scan lifecycle of the GUI.                       *)
(*                                                                         *)
(* Strings are sequences of one-character strings.  A 32-bit DWORD is a    *)
(* record [hi, lo] of two 16-bit halves, because 0xFFFFFFFF does not fit   *)
(* the model checker's integers.                                           *)
(***************************************************************************)
EXTENDS Integers, Sequences, FiniteSets, TLC

VARIABLES
    \* --- tree builder / aggregator (build_tree, Node.aggregate_size)
    phase,          \* "start" | "scan" | "built" | "aggregated"
    max_depth,      \* the max_depth argument of the root call
    stack,          \* active build_tree calls that are enumerating, root first
    tree_ret,       \* return value of the root build_tree call
    fuel,           \* directory entries the filesystem has yielded so far
    lastEvent,      \* what the last builder step did (history)
    rootFailed,     \* a failure of the root directory itself happened (history)
    \* --- reparse resolver called on its own
    r_ent,          \* what the OS answers for the path
    r_vol,          \* the volume_letter argument
    r_out,          \* "unset" | "true" | "false"
    r_segs,         \* segments the substitute name is made of so far
    \* --- treemap layout
    l_node,         \* the directory handed to draw_node_recursive
    l_w, l_h,       \* the target width and height
    l_depth,        \* max_draw_depth
    l_pc,           \* "input" | "drawn"
    rectangles,     \* self.rectangles
    l_shares,       \* node_width / node_height of each child of the top strip
    \* --- GUI scan lifecycle
    scanning,       \* self.scanning
    scan_button,    \* state of the Scan button: "normal" | "disabled"
    tree_root,      \* self.tree_root: a tree id, 0 for None
    trees,          \* per scan: the tree its worker builds, [none, built,
                    \* aggregated (times aggregate_size completed on it)]
    workers,        \* per started scan_worker thread: its position
    afterq,         \* callbacks scheduled with root.after and not yet run
    canvas_ok,      \* the canvas is larger than 1x1
    lastDraw,       \* the last call of draw_node_recursive from
                    \* draw_visualization: the tree and its state (history)
    ui_ev           \* the last handler that ran on the main thread (history)

scanVars   == <<phase, max_depth, stack, tree_ret, fuel, lastEvent, rootFailed>>
resVars    == <<r_ent, r_vol, r_out, r_segs>>
layoutVars == <<l_node, l_w, l_h, l_depth, l_pc, rectangles, l_shares>>
uiVars     == <<scanning, scan_button, tree_root, trees, workers, afterq,
                canvas_ok, lastDraw, ui_ev>>
vars       == <<scanVars, resVars, layoutVars, uiVars>>

(***************************************************************************)
(* Bounds of the model.                                                    *)
(***************************************************************************)
MaxDepth    == 2    \* max_depth ranges over 0..MaxDepth
MaxEntries  == 4    \* directory entries one scan enumerates in total
MaxFileSize == 2    \* st_size ranges over 0..MaxFileSize
MaxSegs     == 3    \* segments a reparse target is made of
MaxChildren == 4    \* children of the directory that is laid out
MaxScans    == 3    \* scans started over the life of the window
MaxPending  == 2    \* redraws scheduled and not yet run

(***************************************************************************)
(* Strings.                                                                *)
(***************************************************************************)
LowerLetters == <<"a","b","c","d","e","f","g","h","i","j","k","l","m",
                  "n","o","p","q","r","s","t","u","v","w","x","y","z">>
UpperLetters == <<"A","B","C","D","E","F","G","H","I","J","K","L","M",
                  "N","O","P","Q","R","S","T","U","V","W","X","Y","Z">>

IsUpperLetter(c) == \E i \in 1..26 : UpperLetters[i] = c

\* str.upper(), one character
UpperChar(c) ==
    IF \E i \in 1..26 : LowerLetters[i] = c
    THEN UpperLetters[CHOOSE i \in 1..26 : LowerLetters[i] = c]
    ELSE c

\* str.upper()
Upper(s) == [i \in 1..Len(s) |-> UpperChar(s[i])]

\* sub in s
Contains(s, sub) ==
    \E i \in 0..(Len(s) - Len(sub)) :
        \A j \in 1..Len(sub) : s[i + j] = sub[j]

\* str.rstrip(':')
RECURSIVE RStripColon(_)
RStripColon(s) ==
    IF Len(s) > 0 /\ s[Len(s)] = ":"
    THEN RStripColon(SubSeq(s, 1, Len(s) - 1))
    ELSE s

\* re.search(r'([A-Z]:)', s): the positions where the pattern matches
DriveMatches(s) ==
    {i \in 1..(Len(s) - 1) : IsUpperLetter(s[i]) /\ s[i + 1] = ":"}

\* m.group(1) of the first (leftmost) match
FirstDrive(s) ==
    LET i == CHOOSE k \in DriveMatches(s) : \A m \in DriveMatches(s) : k <= m
    IN  <<s[i], s[i + 1]>>

(***************************************************************************)
(* WinAPI values and the ctypes layer.                                     *)
(***************************************************************************)
FILE_ATTRIBUTE_REPARSE_POINT == 1024
MAX_REPARSE_SIZE == 16 * 1024
\* 0xFFFFFFFF as a DWORD
INVALID_FILE_ATTRIBUTES == [hi |-> 65535, lo |-> 65535]

\* attribute words GetFileAttributesW can answer
AttrsDir        == [hi |-> 0, lo |-> 16]           \* DIRECTORY
AttrsReparseDir == [hi |-> 0, lo |-> 16 + 1024]    \* DIRECTORY | REPARSE_POINT
AttrsFile       == [hi |-> 0, lo |-> 32]           \* ARCHIVE

\* A foreign function without a restype returns a C int: the DWORD read as a
\* signed 32-bit integer.
CInt(dw) ==
    IF dw.hi >= 32768 THEN (dw.hi - 65536) * 65536 + dw.lo
    ELSE dw.hi * 65536 + dw.lo

\* a == c for a Python integer a and a DWORD literal c
IntEqDword(a, c) ==
    a >= 0 /\ a \div 65536 = c.hi /\ a % 65536 = c.lo

\* a & bit for a Python integer a (two's complement) and a one-bit mask
BitAnd(a, bit) == IF (a % (2 * bit)) >= bit THEN bit ELSE 0

\* _get_attrs: [none |-> TRUE] stands for None
_get_attrs(ent) ==
    LET a == CInt(ent.attrs)
    IN  IF IntEqDword(a, INVALID_FILE_ATTRIBUTES)
        THEN [none |-> TRUE, a |-> 0]
        ELSE [none |-> FALSE, a |-> a]

is_reparse_point(ent) ==
    LET a == _get_attrs(ent)
    IN  ~a.none /\ BitAnd(a.a, FILE_ATTRIBUTE_REPARSE_POINT) # 0

\* ctypes.sizeof(GENERIC_REPARSE_BUFFER): a DWORD, six USHORTs and the
\* PathBuffer of MAX_REPARSE_SIZE // 2 two-byte wide characters
SizeofReparseBuffer == 4 + 6 * 2 + (MAX_REPARSE_SIZE \div 2) * 2

\* from_buffer_copy on a buffer that holds the whole structure
FromBufferCopyFits == TRUE

\* GENERIC_REPARSE_BUFFER.from_buffer_copy(buf) on the buffer of
\* MAX_REPARSE_SIZE bytes: TRUE when it returns, FALSE when it raises
\* ValueError (the buffer is smaller than the structure)
FromBufferCopyOk == SizeofReparseBuffer <= MAX_REPARSE_SIZE

\* the three substrings of line 90, as the raw string literals spell them
\* (in a raw literal each written backslash is a character)
UncLiteral1 == <<"U","N","C","\\","\\">>
UncLiteral2 == <<"\\","\\","?","?","\\","\\","U","N","C","\\","\\">>
UncLiteral3 == <<"\\","\\","?","\\","\\","U","N","C","\\","\\">>
VolumeLiteral == <<"V","O","L","U","M","E","{">>

\* lines 88-100: the classification of the substitute name
ClassifyTarget(target, volume_letter) ==
    LET target_upper == Upper(target)
        vol_upper    == Upper(RStripColon(volume_letter)) \o <<":">>
    IN  IF \/ Contains(target_upper, UncLiteral1)
           \/ Contains(target_upper, UncLiteral2)
           \/ Contains(target_upper, UncLiteral3)
        THEN FALSE
        ELSE IF DriveMatches(target_upper) # {}
        THEN FirstDrive(target_upper) = vol_upper
        ELSE IF Contains(target_upper, VolumeLiteral)
        THEN FALSE
        ELSE FALSE

\* the resolver with the parse failure answered "same volume"
SameVolumeFailOpen(ent, volume_letter) ==
    LET attrs == _get_attrs(ent)
    IN  IF attrs.none THEN FALSE
        ELSE IF BitAnd(attrs.a, FILE_ATTRIBUTE_REPARSE_POINT) = 0 THEN TRUE
        ELSE IF ~ent.handle_ok THEN FALSE
        ELSE IF ~ent.ioctl_ok THEN FALSE
        ELSE IF ~FromBufferCopyOk THEN TRUE
        ELSE ClassifyTarget(ent.target, volume_letter)

is_reparse_point_target_same_volume(ent, volume_letter) ==
    LET attrs == _get_attrs(ent)
    IN  IF attrs.none THEN FALSE
        ELSE IF BitAnd(attrs.a, FILE_ATTRIBUTE_REPARSE_POINT) = 0 THEN TRUE
        ELSE IF ~ent.handle_ok THEN FALSE
        ELSE IF ~ent.ioctl_ok THEN FALSE
        ELSE IF ~FromBufferCopyOk THEN FALSE
        ELSE ClassifyTarget(ent.target, volume_letter)

(***************************************************************************)
(* The filesystem as the builder sees it: what the OS answers about one    *)
(* path.                                                                   *)
(*   entry_is_dir  entry.is_dir(follow_symlinks=False)                     *)
(*   attrs         GetFileAttributesW(path), a DWORD                       *)
(*   handle_ok     CreateFileW returned a valid handle                     *)
(*   ioctl_ok      DeviceIoControl(FSCTL_GET_REPARSE_POINT) succeeded      *)
(*   target        the substitute name in the reparse data                 *)
(*   path_isdir    os.path.isdir(path)                                     *)
(*   scandir       os.scandir(path): "ok", "perm" (PermissionError) or     *)
(*                 "oserr" (another OSError)                               *)
(*   stat_ok       entry.stat(follow_symlinks=False) returned              *)
(*   st_size       its st_size                                             *)
(*   raises        the exception the calls of lines 161-166 raise for the  *)
(*                 entry: "none", "perm" (PermissionError) or "other"      *)
(***************************************************************************)
RootVolume == <<"C", ":">>

TargetSameDrive  == <<"\\","?","?","\\","C",":","\\","x">>
TargetOtherDrive == <<"\\","?","?","\\","D",":","\\","x">>
TargetUnc        == <<"\\","?","?","\\","U","N","C","\\","s","\\","C",":">>
Targets == {TargetSameDrive, TargetOtherDrive, TargetUnc}

PlainDir ==
    [entry_is_dir |-> TRUE, attrs |-> AttrsDir, handle_ok |-> TRUE,
     ioctl_ok |-> TRUE, target |-> <<>>, path_isdir |-> TRUE,
     scandir |-> "ok", stat_ok |-> TRUE, st_size |-> 0, raises |-> "none"]

PlainFile ==
    [PlainDir EXCEPT !.entry_is_dir = FALSE, !.attrs = AttrsFile,
                     !.path_isdir = FALSE, !.scandir = "oserr"]

ReparseEnts ==
    {[PlainDir EXCEPT !.attrs = AttrsReparseDir, !.target = t] : t \in Targets}
    \cup {[PlainDir EXCEPT !.attrs = AttrsReparseDir, !.handle_ok = FALSE],
          [PlainDir EXCEPT !.attrs = AttrsReparseDir, !.ioctl_ok = FALSE],
          [PlainDir EXCEPT !.attrs = INVALID_FILE_ATTRIBUTES,
                           !.handle_ok = FALSE]}

\* what the root path can be
RootEnts ==
    {[PlainDir EXCEPT !.scandir = s] : s \in {"ok", "perm", "oserr"}}
    \cup ReparseEnts

\* what a directory entry can be
DirEnts ==
    RootEnts
    \cup {[PlainDir EXCEPT !.path_isdir = FALSE]}

FileEnts ==
    {[PlainFile EXCEPT !.st_size = s] : s \in 0..MaxFileSize}
    \cup {[PlainFile EXCEPT !.stat_ok = FALSE]}

RaisingEnts == {[PlainDir EXCEPT !.raises = r] : r \in {"perm", "other"}}

Entries == DirEnts \cup FileEnts \cup RaisingEnts

\* the drive letter the substitute name of a reparse point names, if any
TargetDrive(ent) ==
    IF DriveMatches(Upper(ent.target)) = {} THEN <<>>
    ELSE FirstDrive(Upper(ent.target))

(***************************************************************************)
(* Node (lines 103-138).  parent is not modelled: a node is the value its   *)
(* parent's children list holds.  name is the ordinal of the directory     *)
(* entry the node was made for (0 for the root), which is unique among     *)
(* siblings as names are.  children is <<>> where the code has None        *)
(* (is_dir = FALSE); ent is the path the node was made for (history).      *)
(***************************************************************************)
Node(name, ent, is_dir, size) ==
    [name |-> name, is_dir |-> is_dir, children |-> <<>>, size |-> size,
     ent |-> ent]

add_child(node, ch) ==
    IF node.is_dir
    THEN [node EXCEPT !.children = Append(@, ch)]
    ELSE node

RECURSIVE SumSizes(_)
SumSizes(chs) ==
    IF chs = <<>> THEN 0 ELSE chs[1].size + SumSizes(Tail(chs))

\* aggregate_size with the child's stored size in place of the recursive call
AggregateShallow(node) ==
    IF ~node.is_dir THEN node
    ELSE [node EXCEPT !.size = SumSizes(node.children)]

\* aggregate_size: the node after the call (the value returned is its size)
RECURSIVE aggregate_size(_)
aggregate_size(node) ==
    IF ~node.is_dir THEN node
    ELSE LET chs == [i \in 1..Len(node.children) |->
                        aggregate_size(node.children[i])]
         IN  [node EXCEPT !.children = chs, !.size = SumSizes(chs)]

(***************************************************************************)
(* build_tree (lines 141-186), one step per directory entry.               *)
(***************************************************************************)
NoNode == Node(0, PlainDir, FALSE, 0)

\* the depth test of line 156
DescendsOffByOne(node, depth, maxd) == node.is_dir /\ depth <= maxd
Descends(node, depth, maxd) == node.is_dir /\ depth < maxd

\* PermissionError from os.scandir(path) (lines 182-183) with the node kept
ScandirDeniedKeepsNode(node) == [ret |-> "node", node |-> node]
ScandirDenied(node) == [ret |-> "None", node |-> NoNode]

\* Lines 142-158 and 182-186: a call of build_tree up to the first entry.
\* ret is "None", "node" (returned without enumerating) or "scan" (the
\* directory was opened and is being enumerated).
BuildTreeEnter(name, ent, isRoot, depth, maxd, vol) ==
    LET node == IF isRoot THEN Node(name, ent, TRUE, 0)
                ELSE Node(name, ent, ent.path_isdir, 0)
    IN  IF is_reparse_point(ent)
           /\ ~is_reparse_point_target_same_volume(ent, vol)
        THEN [ret |-> "None", node |-> NoNode]
        ELSE IF Descends(node, depth, maxd)
        THEN CASE ent.scandir = "ok"    -> [ret |-> "scan", node |-> node]
               [] ent.scandir = "perm"  -> ScandirDenied(node)
               [] ent.scandir = "oserr" -> [ret |-> "None", node |-> NoNode]
        ELSE [ret |-> "node", node |-> node]

\* The caller's side of a return (lines 169-170; the root call returns to
\* scan_worker): stk is the stack without the returning call.
Returned(stk, none, node) ==
    IF stk = <<>>
    THEN /\ stack' = <<>>
         /\ tree_ret' = [none |-> none, node |-> IF none THEN NoNode ELSE node]
         /\ phase' = "built"
    ELSE /\ stack' = IF none THEN stk
                     ELSE [stk EXCEPT ![Len(stk)].node = add_child(@, node)]
         /\ UNCHANGED <<tree_ret, phase>>

Top == stack[Len(stack)]
Below == SubSeq(stack, 1, Len(stack) - 1)

\* an exception of lines 161-166: PermissionError is caught per entry (lines
\* 180-181), any other one ends the enclosing call (lines 185-186)
EntryRaises(ent) ==
    IF ent.raises = "perm"
    THEN /\ UNCHANGED <<stack, tree_ret, phase, rootFailed>>
         /\ lastEvent' = [op |-> "raise", ent |-> ent, depth |-> Top.depth + 1,
                          ret |-> "skipped"]
    ELSE /\ Returned(Below, TRUE, NoNode)
         /\ UNCHANGED rootFailed
         /\ lastEvent' = [op |-> "raise", ent |-> ent, depth |-> Top.depth + 1,
                          ret |-> "aborted"]

IdleScan ==
    /\ phase = "idle" /\ max_depth = 0 /\ stack = <<>>
    /\ tree_ret = [none |-> TRUE, node |-> NoNode]
    /\ fuel = 0 /\ rootFailed = FALSE
    /\ lastEvent = [op |-> "init", ent |-> PlainDir, depth |-> 0, ret |-> "None"]
IdleResolver ==
    r_ent = PlainDir /\ r_vol = <<>> /\ r_out = "unset" /\ r_segs = 0
IdleLayout ==
    /\ l_node = NoNode /\ l_w = 0 /\ l_h = 0 /\ l_depth = 0 /\ l_pc = "idle"
    /\ rectangles = <<>> /\ l_shares = <<>>
IdleUI ==
    /\ scanning = FALSE /\ scan_button = "normal" /\ tree_root = 0
    /\ trees = <<>> /\ workers = <<>> /\ afterq = <<>>
    /\ canvas_ok = FALSE /\ ui_ev = "none"
    /\ lastDraw = [tree |-> 0, built |-> FALSE, aggregated |-> 0,
                   scanning |-> FALSE]

\* the call scan_worker makes (lines 301-302), with max_depth left open
InitScan ==
    /\ phase = "start"
    /\ max_depth \in 0..MaxDepth
    /\ stack = <<>>
    /\ tree_ret = [none |-> TRUE, node |-> NoNode]
    /\ fuel = 0
    /\ rootFailed = FALSE
    /\ lastEvent = [op |-> "init", ent |-> PlainDir, depth |-> 0, ret |-> "None"]
    /\ IdleResolver /\ IdleLayout /\ IdleUI

\* the root call of build_tree up to its first directory entry
BuildRoot ==
    /\ phase = "start"
    /\ \E ent \in RootEnts :
         LET r == BuildTreeEnter(0, ent, TRUE, 0, max_depth, RootVolume)
         IN  /\ IF r.ret = "scan"
                THEN /\ stack' = <<[node |-> r.node, depth |-> 0]>>
                     /\ phase' = "scan"
                     /\ UNCHANGED tree_ret
                ELSE Returned(<<>>, r.ret = "None", r.node)
             /\ rootFailed' = (r.ret = "None")
             /\ lastEvent' = [op |-> "root", ent |-> ent, depth |-> 0,
                              ret |-> r.ret]
    /\ UNCHANGED <<max_depth, fuel, resVars, layoutVars, uiVars>>

\* lines 162-170: an entry that is a directory
DirEntry(ent) ==
    IF is_reparse_point(ent)
       /\ ~is_reparse_point_target_same_volume(ent, RootVolume)
    THEN /\ UNCHANGED <<stack, tree_ret, phase>>
         /\ lastEvent' = [op |-> "pruned", ent |-> ent, depth |-> Top.depth + 1,
                          ret |-> "None"]
    ELSE LET r == BuildTreeEnter(fuel + 1, ent, FALSE, Top.depth + 1,
                                 max_depth, RootVolume)
         IN  /\ IF r.ret = "scan"
                THEN /\ stack' = Append(stack, [node |-> r.node,
                                                depth |-> Top.depth + 1])
                     /\ UNCHANGED <<tree_ret, phase>>
                ELSE Returned(stack, r.ret = "None", r.node)
             /\ lastEvent' = [op |-> "call", ent |-> ent, depth |-> Top.depth + 1,
                              ret |-> r.ret]

\* lines 171-179: an entry that is not a directory
FileEntry(ent) ==
    LET size == IF ent.stat_ok THEN ent.st_size ELSE 0
    IN  /\ stack' = IF size > 0
                    THEN [stack EXCEPT ![Len(stack)].node =
                              add_child(@, Node(fuel + 1, ent, FALSE, size))]
                    ELSE stack
        /\ UNCHANGED <<tree_ret, phase>>
        /\ lastEvent' = [op |-> "file", ent |-> ent, depth |-> Top.depth + 1,
                         ret |-> IF size > 0 THEN "node" ELSE "None"]

\* one iteration of the loop of lines 159-181 in the innermost call
ScanEntry ==
    /\ phase = "scan"
    /\ fuel < MaxEntries
    /\ fuel' = fuel + 1
    /\ \E ent \in Entries :
         IF ent.raises # "none" THEN EntryRaises(ent)
         ELSE /\ IF ent.entry_is_dir THEN DirEntry(ent) ELSE FileEntry(ent)
              /\ UNCHANGED rootFailed
    /\ UNCHANGED <<max_depth, resVars, layoutVars, uiVars>>

\* the iterator is exhausted: the innermost call returns its node (line 184)
ScanEnd ==
    /\ phase = "scan"
    /\ Returned(Below, FALSE, Top.node)
    /\ lastEvent' = [op |-> "end", ent |-> Top.node.ent, depth |-> Top.depth,
                     ret |-> "node"]
    /\ UNCHANGED <<max_depth, fuel, rootFailed, resVars, layoutVars, uiVars>>

\* the iterator itself raises: PermissionError (lines 182-183) or another
\* OSError (lines 185-186); the innermost call returns None either way
ScanIterFails ==
    /\ phase = "scan"
    /\ \E e \in {"perm", "oserr"} :
         lastEvent' = [op |-> "iter", ent |-> Top.node.ent, depth |-> Top.depth,
                       ret |-> "None"]
    /\ Returned(Below, TRUE, NoNode)
    /\ rootFailed' = (rootFailed \/ Len(stack) = 1)
    /\ UNCHANGED <<max_depth, fuel, resVars, layoutVars, uiVars>>

\* scan_worker lines 304-305
AggregateTree ==
    /\ phase = "built"
    /\ phase' = "aggregated"
    /\ tree_ret' = IF tree_ret.none THEN tree_ret
                   ELSE [tree_ret EXCEPT !.node = aggregate_size(@)]
    /\ UNCHANGED <<max_depth, stack, fuel, lastEvent, rootFailed,
                   resVars, layoutVars, uiVars>>

NextScan ==
    \/ BuildRoot
    \/ ScanEntry
    \/ ScanEnd
    \/ ScanIterFails
    \/ AggregateTree

SpecScan == InitScan /\ [][NextScan]_vars

(***************************************************************************)
(* Properties of the built tree.                                           *)
(***************************************************************************)
\* the nodes of the subtree of n, each with its depth, n being at depth d
RECURSIVE NodesAt(_, _)
NodesAt(n, d) ==
    {[n |-> n, d |-> d]}
    \cup UNION {NodesAt(n.children[i], d + 1) : i \in 1..Len(n.children)}

\* every node that exists: of the returned tree and of the calls in progress
AllNodes ==
    (IF tree_ret.none THEN {} ELSE NodesAt(tree_ret.node, 0))
    \cup UNION {NodesAt(stack[i].node, stack[i].depth) : i \in 1..Len(stack)}

\* the total of the sizes of the first k children of d
RECURSIVE ChildTotal(_, _)
ChildTotal(d, k) ==
    IF k = 0 THEN 0 ELSE ChildTotal(d, k - 1) + d.children[k].size

\* the size a node was created with
DiscoveredSize(n) ==
    IF n.ent.entry_is_dir THEN 0
    ELSE IF n.ent.stat_ok THEN n.ent.st_size ELSE 0

\* the path is a reparse point whose substitute name names a drive letter
\* other than the root's volume
ForeignReparse(ent) ==
    /\ ent.attrs # INVALID_FILE_ATTRIBUTES
    /\ (ent.attrs.lo \div FILE_ATTRIBUTE_REPARSE_POINT) % 2 = 1
    /\ TargetDrive(ent) # <<>>
    /\ TargetDrive(ent) # RootVolume

\* C1: after build_tree and aggregate_size on the root, every directory of
\* the tree, at every depth, has as size the sum of the sizes of its
\* children (0 for a directory without children, enumerated or not), and
\* every other node keeps the size it was discovered with.
C1_AggregatedSizes ==
    (phase = "aggregated" /\ ~tree_ret.none) =>
        \A x \in NodesAt(tree_ret.node, 0) :
            IF x.n.is_dir
            THEN x.n.size = ChildTotal(x.n, Len(x.n.children))
            ELSE x.n.size = DiscoveredSize(x.n)

\* an aggregated tree of three levels: the root holds a directory that holds
\* a file and a directory at depth max_depth that was not enumerated
C1_Witness ==
    /\ phase = "aggregated" /\ ~tree_ret.none /\ max_depth = 2
    /\ tree_ret.node.size > 0
    /\ \E x \in NodesAt(tree_ret.node, 0) :
         /\ x.d = 1 /\ x.n.is_dir /\ x.n.size > 0
         /\ \E i, j \in 1..Len(x.n.children) :
              /\ ~x.n.children[i].is_dir
              /\ x.n.children[j].is_dir /\ x.n.children[j].children = <<>>

\* C2: a directory that is a reparse point whose target is on another drive
\* letter than the root's volume never is a node of the tree, neither as a
\* child of its parent nor as a call that enumerates it; when the root is
\* such a reparse point, build_tree returns None.
C2_ForeignReparseAbsent ==
    /\ \A x \in AllNodes : ~ForeignReparse(x.n.ent)
    /\ (lastEvent.op = "root" /\ ForeignReparse(lastEvent.ent)) =>
           (phase # "scan" /\ tree_ret.none)
    /\ (lastEvent.op \in {"pruned", "call"} /\ ForeignReparse(lastEvent.ent)) =>
           lastEvent.ret = "None"

\* a foreign junction was met under a root that already has a child
C2_Witness ==
    /\ phase = "scan"
    /\ lastEvent.op = "pruned" /\ ForeignReparse(lastEvent.ent)
    /\ lastEvent.ent.handle_ok /\ lastEvent.ent.ioctl_ok
    /\ stack[1].node.children # <<>>

\* C3: no node, file or directory, lies deeper than max_depth, the root
\* being at depth 0, whatever the filesystem offers below.
C3_DepthBounded ==
    \A x \in AllNodes : x.d <= max_depth

\* a directory sits at depth max_depth, could be opened, the filesystem has
\* entries left to give, and the scan ended without entering it
C3_Witness ==
    /\ phase = "built" /\ ~tree_ret.none /\ max_depth = 1
    /\ fuel < MaxEntries
    /\ \E x \in NodesAt(tree_ret.node, 0) :
         /\ x.d = max_depth /\ x.n.is_dir
         /\ x.n.ent.scandir = "ok" /\ x.n.ent.attrs = AttrsDir
    /\ \E x \in NodesAt(tree_ret.node, 0) : x.d = max_depth /\ ~x.n.is_dir

\* build_tree was called on a directory that it tried to open, and the
\* open was refused with PermissionError
DeniedEnumeration(ev) ==
    /\ ev.op \in {"root", "call"}
    /\ ev.ent.scandir = "perm"
    /\ ev.ent.attrs = AttrsDir
    /\ ev.op = "root" \/ ev.ent.path_isdir
    /\ ev.depth < max_depth

\* C4 as claimed: such a call returns the directory node, without children,
\* and the parent adds it.
C4_DeniedDirectoryKept ==
    DeniedEnumeration(lastEvent) =>
        /\ lastEvent.ret = "node"
        /\ lastEvent.op = "call" =>
             /\ Top.node.children # <<>>
             /\ Top.node.children[Len(Top.node.children)]
                    = Node(fuel, lastEvent.ent, TRUE, 0)

\* C4 as the code has it: such a call returns None; no directory whose open
\* was refused is a node of the tree above depth max_depth, and a refused
\* root makes the whole scan return None.
C4_DeniedDirectoryOmitted ==
    /\ DeniedEnumeration(lastEvent) =>
         /\ lastEvent.ret = "None"
         /\ lastEvent.op = "root" => (phase # "scan" /\ tree_ret.none)
    /\ \A x \in AllNodes :
         (x.n.is_dir /\ x.d < max_depth) => x.n.ent.scandir # "perm"

\* the open of a subdirectory was refused under a root that has a child
C4_Witness ==
    /\ phase = "scan"
    /\ DeniedEnumeration(lastEvent) /\ lastEvent.op = "call"
    /\ Len(stack[1].node.children) = 1

\* C5 as claimed: the scan returns None only after a failure of the root
\* directory itself (the root is a pruned reparse point, cannot be opened,
\* or its enumeration fails).
C5_OnlyRootFailureIsTerminal ==
    (phase \in {"built", "aggregated"} /\ tree_ret.none) => rootFailed

(***************************************************************************)
(* The resolver on its own: is_reparse_point_target_same_volume on a path  *)
(* whose substitute name is any string made of a few segments.             *)
(***************************************************************************)
Segments ==
    { <<"\\","?","?","\\">>,      \* \??\
      <<"U","N","C","\\">>,       \* UNC\
      <<"u","n","c","\\">>,       \* unc\
      <<"\\","\\">>,              \* two backslashes
      <<"\\">>,
      <<"C",":">>,
      <<"D",":">>,
      <<"x">> }

Volumes == { <<"C",":">>, <<"c">> }

ResolverEnts ==
    {PlainDir,
     [PlainDir EXCEPT !.attrs = INVALID_FILE_ATTRIBUTES, !.handle_ok = FALSE]}
    \cup {[PlainDir EXCEPT !.attrs = AttrsReparseDir, !.handle_ok = h,
                           !.ioctl_ok = i] : h, i \in BOOLEAN}

InitResolver ==
    /\ r_ent \in ResolverEnts
    /\ r_vol \in Volumes
    /\ r_out = "unset"
    /\ r_segs = 0
    /\ IdleScan /\ IdleLayout /\ IdleUI

\* the reparse data of the path grows by one segment
AppendSegment ==
    /\ r_out = "unset"
    /\ r_segs < MaxSegs
    /\ \E seg \in Segments : r_ent' = [r_ent EXCEPT !.target = @ \o seg]
    /\ r_segs' = r_segs + 1
    /\ UNCHANGED <<r_vol, r_out, scanVars, layoutVars, uiVars>>

\* the call is_reparse_point_target_same_volume(path, volume_letter)
Resolve ==
    /\ r_out = "unset"
    /\ r_out' = IF is_reparse_point_target_same_volume(r_ent, r_vol)
                THEN "true" ELSE "false"
    /\ UNCHANGED <<r_ent, r_vol, r_segs, scanVars, layoutVars, uiVars>>

NextResolver == AppendSegment \/ Resolve

SpecResolver == InitResolver /\ [][NextResolver]_vars

\* the UNC markers as the target holds them
UncMarker1 == <<"\\","?","?","\\","U","N","C","\\">>     \* \??\UNC\
UncMarker2 == <<"\\","\\","U","N","C","\\">>             \* \\UNC\

HasUncMarker(target) ==
    \/ Contains(Upper(target), UncMarker1)
    \/ Contains(Upper(target), UncMarker2)

\* the attribute word has the reparse-point bit
RawReparse(ent) ==
    /\ ent.attrs # INVALID_FILE_ATTRIBUTES
    /\ (ent.attrs.lo \div FILE_ATTRIBUTE_REPARSE_POINT) % 2 = 1

\* C6: for a path that is a reparse point the resolver answers false for
\* every substitute name that contains a UNC marker, whatever else the name
\* contains and whatever the root volume is.
C6_UncNeverSameVolume ==
    (r_out # "unset" /\ RawReparse(r_ent) /\ HasUncMarker(r_ent.target)) =>
        r_out = "false"

\* the reparse data was read, and the target \??\UNC\...C: names, after
\* the UNC marker, the drive letter of the root volume
C6_Witness ==
    /\ r_out = "false"
    /\ RawReparse(r_ent) /\ r_ent.handle_ok /\ r_ent.ioctl_ok
    /\ Contains(r_ent.target, UncMarker1)
    /\ DriveMatches(Upper(r_ent.target)) # {}
    /\ FirstDrive(Upper(r_ent.target))
           = Upper(RStripColon(r_vol)) \o <<":">>

(***************************************************************************)
(* The treemap layout (lines 353-436).  A placement is an element of       *)
(* self.rectangles: (node, x1, y1, x2, y2).  The canvas calls and the      *)
(* text labels are not modelled.                                           *)
(***************************************************************************)
Max(a, b) == IF a >= b THEN a ELSE b

\* sum(n.size for n in nodes)
RECURSIVE TotalSize(_)
TotalSize(nodes) ==
    IF nodes = <<>> THEN 0 ELSE nodes[1].size + TotalSize(Tail(nodes))

\* [ch for ch in node.children if ch.size > 0]
Positive(nodes) == SelectSeq(nodes, LAMBDA ch : ch.size > 0)

\* nodes with ch inserted before the first node smaller than it
RECURSIVE InsertDesc(_, _)
InsertDesc(nodes, ch) ==
    IF nodes = <<>> THEN <<ch>>
    ELSE IF nodes[1].size < ch.size THEN <<ch>> \o nodes
    ELSE <<nodes[1]>> \o InsertDesc(Tail(nodes), ch)

\* sorted(nodes, key=size, reverse=True): largest first, equal sizes in their
\* original order (the sort is stable)
RECURSIVE SortedDesc(_)
SortedDesc(nodes) ==
    IF nodes = <<>> THEN <<>>
    ELSE InsertDesc(SortedDesc(SubSeq(nodes, 1, Len(nodes) - 1)),
                    nodes[Len(nodes)])

\* the share without the minimum of one unit
ShareUnclamped(dim, size, total) == (dim * size) \div total

\* max(1, int(dim * size / total_size)) (lines 417 and 431); the quotient of
\* the two positive integers is taken exactly
Share(dim, size, total) == Max(1, (dim * size) \div total)

\* The loop of lines 411-422 (and 425-436) from child i on: per child the
\* position and the node_width (node_height) it computes; at is current_x
\* (current_y) and remaining is remaining_width (remaining_height).
RECURSIVE StripCalls(_, _, _, _, _, _)
StripCalls(nodes, dim, total, i, at, remaining) ==
    IF i > Len(nodes) THEN <<>>
    ELSE LET last  == (i = Len(nodes))
             share == IF last THEN remaining
                      ELSE Share(dim, nodes[i].size, total)
         IN  <<[node |-> nodes[i], at |-> at, share |-> share]>>
             \o StripCalls(nodes, dim, total, i + 1,
                           IF share > 0 THEN at + share ELSE at,
                           IF last THEN remaining ELSE remaining - share)

RECURSIVE draw_node_recursive(_, _, _, _, _, _, _)
RECURSIVE draw_treemap(_, _, _, _, _, _, _)
RECURSIVE DrawCalls(_, _, _, _, _, _, _, _)

\* the calls of lines 420-422 (434-436), for the children with a share > 0
DrawCalls(calls, vertical, x, y, width, height, level, max_draw_depth) ==
    IF calls = <<>> THEN <<>>
    ELSE LET c == calls[1]
         IN  (IF c.share <= 0 THEN <<>>
              ELSE IF vertical
              THEN draw_node_recursive(c.node, c.at, y, c.share, height,
                                       level, max_draw_depth)
              ELSE draw_node_recursive(c.node, x, c.at, width, c.share,
                                       level, max_draw_depth))
             \o DrawCalls(Tail(calls), vertical, x, y, width, height,
                          level, max_draw_depth)

\* the placements draw_treemap appends
draw_treemap(nodes, x, y, width, height, level, max_draw_depth) ==
    IF nodes = <<>> \/ width < 4 \/ height < 4 THEN <<>>
    ELSE LET total_size == TotalSize(nodes)
             vertical_split == width > height
         IN  IF total_size = 0 THEN <<>>
             ELSE IF Len(nodes) = 1
             THEN draw_node_recursive(nodes[1], x, y, width, height,
                                      level, max_draw_depth)
             ELSE IF vertical_split
             THEN DrawCalls(StripCalls(nodes, width, total_size, 1, x, width),
                            TRUE, x, y, width, height, level, max_draw_depth)
             ELSE DrawCalls(StripCalls(nodes, height, total_size, 1, y, height),
                            FALSE, x, y, width, height, level, max_draw_depth)

\* the children handed on in enumeration order
ChildrenUnsorted(node) == Positive(node.children)

\* the children draw_node_recursive hands to draw_treemap (lines 388-389)
SortedChildren(node) == SortedDesc(Positive(node.children))

\* the placements draw_node_recursive appends
draw_node_recursive(node, x, y, width, height, level, max_draw_depth) ==
    IF width < 2 \/ height < 2 THEN <<>>
    ELSE <<[node |-> node, x1 |-> x, y1 |-> y,
            x2 |-> x + width, y2 |-> y + height]>>
         \o (IF node.is_dir /\ node.children # <<>> /\ level < max_draw_depth
             THEN IF TotalSize(Positive(node.children)) = 0 THEN <<>>
                  ELSE draw_treemap(SortedChildren(node), x + 2, y + 2,
                                    width - 4, height - 4, level + 1,
                                    max_draw_depth)
             ELSE <<>>)

(***************************************************************************)
(* The layout on its own: draw_node_recursive, as draw_visualization calls *)
(* it (line 351), on a directory of files.                                 *)
(***************************************************************************)
SizeSet == {0, 1, 100, 800}
Dims    == {1, 8, 9, 12, 50, 100}
DrawDepths == {0, 1, 2}

FileOfSize(name, size) ==
    Node(name, [PlainFile EXCEPT !.st_size = size], FALSE, size)

\* a directory whose children are files of the given sizes, in that order
DirOfFiles(sizes) ==
    [Node(0, PlainDir, TRUE, TotalSize([i \in 1..Len(sizes) |->
                                           FileOfSize(i, sizes[i])]))
        EXCEPT !.children = [i \in 1..Len(sizes) |-> FileOfSize(i, sizes[i])]]

SizeLists == UNION {[1..n -> SizeSet] : n \in 0..MaxChildren}

\* a directory with the given children, its size aggregated (lines 131-138)
DirOfNodes(name, chs) ==
    [Node(name, PlainDir, TRUE, TotalSize(chs)) EXCEPT !.children = chs]

\* a directory holding a subdirectory of files of the sizes inner, followed
\* by files of the sizes outer
NestedTree(inner, outer) ==
    DirOfNodes(0,
        <<DirOfNodes(1, [i \in 1..Len(inner) |-> FileOfSize(10 + i, inner[i])])>>
        \o [i \in 1..Len(outer) |-> FileOfSize(1 + i, outer[i])])

SiblingLists == {<<>>, <<100>>}

LayoutTrees ==
    {DirOfFiles(sizes) : sizes \in SizeLists}
    \cup {NestedTree(inner, outer) : inner \in SizeLists, outer \in SiblingLists}

InitLayout ==
    /\ l_node \in LayoutTrees
    /\ l_w \in Dims
    /\ l_h \in Dims
    /\ l_depth \in DrawDepths
    /\ l_pc = "input"
    /\ rectangles = <<>>
    /\ l_shares = <<>>
    /\ IdleScan /\ IdleResolver /\ IdleUI

\* the strip split that lays out the children of the directory, if the
\* call reaches the loops of draw_treemap
TopStripReached ==
    /\ l_w >= 2 /\ l_h >= 2
    /\ l_node.children # <<>> /\ 0 < l_depth
    /\ l_w - 4 >= 4 /\ l_h - 4 >= 4
    /\ Len(SortedChildren(l_node)) >= 2

TopDim == IF l_w - 4 > l_h - 4 THEN l_w - 4 ELSE l_h - 4

\* draw_visualization, lines 337-351: the rectangles are cleared and the
\* tree is laid out from (0, 0) at level 0
Draw ==
    /\ l_pc = "input"
    /\ l_pc' = "drawn"
    /\ rectangles' = draw_node_recursive(l_node, 0, 0, l_w, l_h, 0, l_depth)
    /\ l_shares' =
         IF TopStripReached
         THEN StripCalls(SortedChildren(l_node), TopDim,
                         TotalSize(SortedChildren(l_node)), 1, 2, TopDim)
         ELSE <<>>
    /\ UNCHANGED <<l_node, l_w, l_h, l_depth, scanVars, resVars, uiVars>>

NextLayout == Draw

SpecLayout == InitLayout /\ [][NextLayout]_vars

\* the example of the claim: children of sizes 100, 100, 800 in a region of
\* width 100 and height 50, level 0, max_draw_depth 1
C7_Input ==
    /\ l_node = DirOfFiles(<<100, 100, 800>>)
    /\ l_w = 100 /\ l_h = 50 /\ l_depth = 1

\* the placement of node n, if it has exactly one
PlacedAt(n, x1, y1, x2, y2) ==
    /\ \E i \in 1..Len(rectangles) :
         rectangles[i] = [node |-> n, x1 |-> x1, y1 |-> y1,
                          x2 |-> x2, y2 |-> y2]
    /\ Cardinality({i \in 1..Len(rectangles) : rectangles[i].node = n}) = 1

\* C7 as claimed: the three children are placed in enumeration order at the
\* x-ranges [0,10), [10,20) and [20,100), each over the full height 50.
C7_ExampleAsClaimed ==
    (l_pc = "drawn" /\ C7_Input) =>
        /\ PlacedAt(l_node.children[1],  0, 0,  10, 50)
        /\ PlacedAt(l_node.children[2], 10, 0,  20, 50)
        /\ PlacedAt(l_node.children[3], 20, 0, 100, 50)

\* C7 as the code has it: the directory takes (0,0,100,50); its children are
\* laid out largest first in the region inset by 2 on every side (width 96,
\* height 46), in a vertical strip: the child of size 800 at x-range [2,78),
\* then the two children of size 100, in enumeration order, at [78,87) and
\* [87,98), each over the y-range [2,48).
C7_ExampleAsBuilt ==
    (l_pc = "drawn" /\ C7_Input) =>
        rectangles =
          << [node |-> l_node, x1 |-> 0, y1 |-> 0, x2 |-> 100, y2 |-> 50],
             [node |-> l_node.children[3],
              x1 |-> 2, y1 |-> 2, x2 |-> 78, y2 |-> 48],
             [node |-> l_node.children[1],
              x1 |-> 78, y1 |-> 2, x2 |-> 87, y2 |-> 48],
             [node |-> l_node.children[2],
              x1 |-> 87, y1 |-> 2, x2 |-> 98, y2 |-> 48] >>

C7_Witness == l_pc = "drawn" /\ C7_Input /\ Len(rectangles) = 4

\* the shares the top strip issued: the node_width (node_height) of the
\* calls of draw_node_recursive it made
RECURSIVE IssuedTotal(_)
IssuedTotal(calls) ==
    IF calls = <<>> THEN 0
    ELSE (IF calls[1].share > 0 THEN calls[1].share ELSE 0)
         + IssuedTotal(Tail(calls))

\* the dimension left after the shares of the children before the last
RECURSIVE RemainingAfter(_, _)
RemainingAfter(calls, dim) ==
    IF Len(calls) <= 1 THEN dim
    ELSE RemainingAfter(Tail(calls), dim - calls[1].share)

NonLastSharesAsClaimed ==
    LET nodes == SortedChildren(l_node)
        total == TotalSize(nodes)
    IN  /\ Len(l_shares) = Len(nodes)
        /\ \A i \in 1..(Len(nodes) - 1) :
             /\ l_shares[i].node = nodes[i]
             /\ l_shares[i].share
                    = Max(1, (TopDim * nodes[i].size) \div total)

\* C9 as claimed: in a strip split over two or more children every child but
\* the last is issued max(1, floor(dimension * size / total)), the last is
\* issued exactly the remaining dimension, and the issued shares sum to the
\* dimension.
C9_SharesSumAsClaimed ==
    (l_pc = "drawn" /\ TopStripReached) =>
        /\ NonLastSharesAsClaimed
        /\ l_shares[Len(l_shares)].share = RemainingAfter(l_shares, TopDim)
        /\ IssuedTotal(l_shares) = TopDim

\* C9 as the code has it: every child but the last is issued
\* max(1, floor(dimension * size / total)); the last child is issued the
\* remaining dimension when that is positive and nothing otherwise; the
\* issued shares sum to the dimension when the remainder is not negative and
\* exceed it by the deficit when it is.
C9_SharesSumAsBuilt ==
    (l_pc = "drawn" /\ TopStripReached) =>
        LET rem  == RemainingAfter(l_shares, TopDim)
            last == l_shares[Len(l_shares)]
        IN  /\ NonLastSharesAsClaimed
            /\ last.share = rem
            /\ rem >= 0 => IssuedTotal(l_shares) = TopDim
            /\ rem < 0 => IssuedTotal(l_shares) = TopDim - rem

\* the minimum of one unit made the shares of the first children exceed the
\* dimension: the last child is left with a negative remainder
C9_Witness ==
    /\ l_pc = "drawn" /\ TopStripReached
    /\ l_shares[Len(l_shares)].share < 0
    /\ \E i \in 1..(Len(l_shares) - 1) :
         /\ l_shares[i].share = 1
         /\ (TopDim * l_shares[i].node.size)
                \div TotalSize(SortedChildren(l_node)) = 0

\* the placements of the children of the directory placed as rectangles[p]
ChildPlacements(p) ==
    {c \in 1..Len(rectangles) :
        \E k \in 1..Len(rectangles[p].node.children) :
            rectangles[c].node = rectangles[p].node.children[k]}

\* placement c lies in the region of placement p inset by 2 on every side
InsideInset(c, p) ==
    /\ rectangles[p].x1 + 2 <= rectangles[c].x1
    /\ rectangles[c].x1 < rectangles[c].x2
    /\ rectangles[c].x2 <= rectangles[p].x2 - 2
    /\ rectangles[p].y1 + 2 <= rectangles[c].y1
    /\ rectangles[c].y1 < rectangles[c].y2
    /\ rectangles[c].y2 <= rectangles[p].y2 - 2

\* the strip of draw_treemap that laid out the children of rectangles[p]
StripOf(p) ==
    LET r     == rectangles[p]
        nodes == SortedChildren(r.node)
        w     == (r.x2 - r.x1) - 4
        h     == (r.y2 - r.y1) - 4
        dim   == IF w > h THEN w ELSE h
    IN  IF Len(nodes) >= 2 /\ w >= 4 /\ h >= 4
        THEN StripCalls(nodes, dim, TotalSize(nodes), 1, 0, dim)
        ELSE <<>>

\* C11: every rectangle draw_node_recursive places for a child lies entirely
\* inside the rectangle placed for its parent directory, within the parent's
\* region inset by 2 on every side, for every tree, target rectangle and
\* draw depth, also when the minimum share of 1 makes the issued shares
\* exceed the split dimension and leaves the last child a remainder <= 0.
C11_ChildInsideParent ==
    l_pc = "drawn" =>
        \A p \in 1..Len(rectangles) :
            \A c \in ChildPlacements(p) : InsideInset(c, p)

\* a directory below the root is placed, the strip over its children
\* overshoots (the last child is left a remainder <= 0 after a share was
\* raised to 1), and a child of it is placed all the same
C11_Witness ==
    /\ l_pc = "drawn"
    /\ \E p \in 2..Len(rectangles) :
         LET calls == StripOf(p)
         IN  /\ calls # <<>>
             /\ calls[Len(calls)].share <= 0
             /\ IssuedTotal(calls) > Max(rectangles[p].x2 - rectangles[p].x1,
                                         rectangles[p].y2 - rectangles[p].y1) - 4
             /\ ChildPlacements(p) # {}

(***************************************************************************)
(* The scan lifecycle of the window (lines 188-351, 461-464).  Handlers    *)
(* run one at a time on the main thread; scan_worker runs on its own       *)
(* thread, in the steps build_tree, aggregate_size and root.after.  Tree i *)
(* is the tree the i-th worker builds; tree_root = 0 stands for None.      *)
(***************************************************************************)
NoDraw == [tree |-> 0, built |-> FALSE, aggregated |-> 0, scanning |-> FALSE]

\* __init__ and setup_ui: no tree, and the initial scan (line 256) started
InitUI ==
    /\ scanning = TRUE
    /\ scan_button = "disabled"
    /\ tree_root = 0
    /\ trees = <<[none |-> FALSE, built |-> FALSE, aggregated |-> 0]>>
    /\ workers = <<"build">>
    /\ afterq = <<>>
    /\ canvas_ok = FALSE
    /\ lastDraw = NoDraw
    /\ ui_ev = "setup_ui"
    /\ IdleScan /\ IdleResolver /\ IdleLayout

\* start_scan without the assignment of line 281
StartScanLeavesFlag ==
    IF scanning
    THEN UNCHANGED <<scanning, scan_button, workers, trees>>
    ELSE /\ UNCHANGED scanning
         /\ scan_button' = "disabled"
         /\ workers' = Append(workers, "build")
         /\ trees' = Append(trees, [none |-> FALSE, built |-> FALSE,
                                    aggregated |-> 0])

\* start_scan (lines 277-293); the canvas and the progress bar are not
\* modelled
start_scan ==
    IF scanning
    THEN UNCHANGED <<scanning, scan_button, workers, trees>>
    ELSE /\ scanning' = TRUE
         /\ scan_button' = "disabled"
         /\ workers' = Append(workers, "build")
         /\ trees' = Append(trees, [none |-> FALSE, built |-> FALSE,
                                    aggregated |-> 0])

\* draw_visualization (lines 333-351) with the pending callbacks q, the
\* tree root and self.scanning: nothing without a tree, a retry after 100 ms while the canvas
\* has no size, else the layout of the tree
draw_visualization(q, root, busy) ==
    IF root = 0
    THEN afterq' = q /\ UNCHANGED lastDraw
    ELSE IF ~canvas_ok
    THEN afterq' = Append(q, [fn |-> "draw", w |-> 0, tree |-> 0])
         /\ UNCHANGED lastDraw
    ELSE /\ afterq' = q
         /\ lastDraw' = [tree |-> root, built |-> trees[root].built,
                         aggregated |-> trees[root].aggregated,
                         scanning |-> busy]

\* the redraws scheduled and not yet run
PendingDraws == Cardinality({i \in 1..Len(afterq) : afterq[i].fn = "draw"})

\* a click on the Scan button, which is dead while disabled (line 282)
ClickScan ==
    /\ scan_button = "normal"
    /\ Len(workers) < MaxScans
    /\ start_scan
    /\ ui_ev' = "scan_button"
    /\ UNCHANGED <<tree_root, afterq, canvas_ok, lastDraw,
                   scanVars, resVars, layoutVars>>

\* on_drive_changed (lines 268-270)
OnDriveChanged ==
    /\ Len(workers) < MaxScans
    /\ IF ~scanning THEN start_scan
       ELSE UNCHANGED <<scanning, scan_button, workers, trees>>
    /\ ui_ev' = "on_drive_changed"
    /\ UNCHANGED <<tree_root, afterq, canvas_ok, lastDraw,
                   scanVars, resVars, layoutVars>>

\* on_depth_changed (lines 272-275)
OnDepthChanged ==
    /\ PendingDraws < MaxPending
    /\ IF ~scanning /\ tree_root # 0
       THEN draw_visualization(afterq, tree_root, scanning)
       ELSE UNCHANGED <<afterq, lastDraw>>
    /\ ui_ev' = "on_depth_changed"
    /\ UNCHANGED <<scanning, scan_button, tree_root, trees, workers, canvas_ok,
                   scanVars, resVars, layoutVars>>

\* on_canvas_resize (lines 461-464): the canvas gets a new size
OnCanvasResize ==
    /\ PendingDraws < MaxPending
    /\ canvas_ok' \in BOOLEAN
    /\ afterq' = IF tree_root # 0
                 THEN Append(afterq, [fn |-> "draw", w |-> 0, tree |-> 0])
                 ELSE afterq
    /\ ui_ev' = "on_canvas_resize"
    /\ UNCHANGED <<scanning, scan_button, tree_root, trees, workers, lastDraw,
                   scanVars, resVars, layoutVars>>

\* where scan_worker goes after build_tree (line 304), without the call of
\* aggregate_size
AfterBuildSkipsAggregate(none) == "post"

\* where scan_worker goes after build_tree (lines 304-308)
AfterBuild(none) == IF none THEN "post" ELSE "aggregate"

\* scan_worker lines 297-302: build_tree returns a tree or None
WorkerBuild ==
    /\ \E i \in 1..Len(workers) :
         /\ workers[i] = "build"
         /\ \E none \in BOOLEAN :
              /\ trees' = [trees EXCEPT ![i] = [@ EXCEPT !.none = none,
                                                         !.built = TRUE]]
              /\ workers' = [workers EXCEPT ![i] = AfterBuild(none)]
    /\ UNCHANGED <<scanning, scan_button, tree_root, afterq, canvas_ok,
                   lastDraw, ui_ev, scanVars, resVars, layoutVars>>

\* scan_worker lines 304-305
WorkerAggregate ==
    /\ \E i \in 1..Len(workers) :
         /\ workers[i] = "aggregate"
         /\ trees' = [trees EXCEPT ![i].aggregated = @ + 1]
         /\ workers' = [workers EXCEPT ![i] = "post"]
    /\ UNCHANGED <<scanning, scan_button, tree_root, afterq, canvas_ok,
                   lastDraw, ui_ev, scanVars, resVars, layoutVars>>

\* scan_worker line 308: root.after(0, self.scan_complete, tree_root), which
\* schedules the callback or raises (Tk called from the worker's thread)
WorkerPost ==
    /\ \E i \in 1..Len(workers) :
         /\ workers[i] = "post"
         /\ \/ /\ afterq' = Append(afterq,
                        [fn |-> "scan_complete", w |-> i,
                         tree |-> IF trees[i].none THEN 0 ELSE i])
               /\ workers' = [workers EXCEPT ![i] = "posted"]
            \/ /\ workers' = [workers EXCEPT ![i] = "except"]
               /\ UNCHANGED afterq
    /\ UNCHANGED <<scanning, scan_button, tree_root, trees, canvas_ok,
                   lastDraw, ui_ev, scanVars, resVars, layoutVars>>

\* scan_worker lines 310-311: root.after(0, self.scan_error, str(e)), which
\* schedules the callback or raises and ends the thread
WorkerExcept ==
    /\ \E i \in 1..Len(workers) :
         /\ workers[i] = "except"
         /\ \/ /\ afterq' = Append(afterq,
                        [fn |-> "scan_error", w |-> i, tree |-> 0])
               /\ workers' = [workers EXCEPT ![i] = "posted"]
            \/ /\ workers' = [workers EXCEPT ![i] = "dead"]
               /\ UNCHANGED afterq
    /\ UNCHANGED <<scanning, scan_button, tree_root, trees, canvas_ok,
                   lastDraw, ui_ev, scanVars, resVars, layoutVars>>

\* afterq without its k-th element
Without(q, k) == SubSeq(q, 1, k - 1) \o SubSeq(q, k + 1, Len(q))

\* the main loop runs scan_complete (lines 313-324)
RunScanComplete ==
    /\ \E k \in 1..Len(afterq) :
         /\ afterq[k].fn = "scan_complete"
         /\ tree_root' = afterq[k].tree
         /\ scanning' = FALSE
         /\ scan_button' = "normal"
         /\ workers' = [workers EXCEPT ![afterq[k].w] = "acked"]
         /\ draw_visualization(Without(afterq, k), afterq[k].tree, FALSE)
    /\ ui_ev' = "scan_complete"
    /\ UNCHANGED <<trees, canvas_ok, scanVars, resVars, layoutVars>>

\* the main loop runs scan_error (lines 326-331)
RunScanError ==
    /\ \E k \in 1..Len(afterq) :
         /\ afterq[k].fn = "scan_error"
         /\ scanning' = FALSE
         /\ scan_button' = "normal"
         /\ workers' = [workers EXCEPT ![afterq[k].w] = "acked"]
         /\ afterq' = Without(afterq, k)
    /\ ui_ev' = "scan_error"
    /\ UNCHANGED <<tree_root, trees, canvas_ok, lastDraw,
                   scanVars, resVars, layoutVars>>

\* the main loop runs a scheduled draw_visualization (lines 344 and 464)
RunDraw ==
    /\ \E k \in 1..Len(afterq) :
         /\ afterq[k].fn = "draw"
         /\ draw_visualization(Without(afterq, k), tree_root, scanning)
    /\ ui_ev' = "draw_visualization"
    /\ UNCHANGED <<scanning, scan_button, tree_root, trees, workers, canvas_ok,
                   scanVars, resVars, layoutVars>>

NextUI ==
    \/ ClickScan
    \/ OnDriveChanged
    \/ OnDepthChanged
    \/ OnCanvasResize
    \/ WorkerBuild
    \/ WorkerAggregate
    \/ WorkerPost
    \/ WorkerExcept
    \/ RunScanComplete
    \/ RunScanError
    \/ RunDraw

SpecUI == InitUI /\ [][NextUI]_vars

\* the scan workers started and not yet acknowledged by scan_complete or
\* scan_error
ActiveScans == {i \in 1..Len(workers) : workers[i] # "acked"}

\* C8: at most one scan is active at any time: under every interleaving of
\* Scan clicks, drive changes, the initial scan and worker completions or
\* errors, no second scan worker is started while an earlier one has not
\* been acknowledged by scan_complete or scan_error.
C8_AtMostOneScan == Cardinality(ActiveScans) <= 1

\* a drive change arrived while the second scan was running and started
\* nothing
C8_Witness ==
    /\ Len(workers) = 2 /\ workers[1] = "acked" /\ workers[2] = "aggregate"
    /\ scanning /\ ui_ev = "on_drive_changed"

\* C10: every layout runs on a tree whose build is complete and on which
\* aggregate_size ran to completion exactly once, also when the redraw is
\* caused by a resize or a depth change during a scan; the tree the window
\* holds is always such a tree.
C10_LayoutOnAggregatedTree ==
    /\ lastDraw.tree # 0 =>
         /\ lastDraw.built /\ lastDraw.aggregated = 1
         /\ trees[lastDraw.tree].aggregated = 1
    /\ tree_root # 0 =>
         /\ trees[tree_root].built /\ trees[tree_root].aggregated = 1
         /\ ~trees[tree_root].none

\* a redraw scheduled by a resize ran while the second scan was still
\* building its tree: it laid out the tree of the first scan
C10_Witness ==
    /\ lastDraw.tree = 1 /\ lastDraw.scanning
    /\ ui_ev = "draw_visualization"
    /\ Len(workers) = 2 /\ workers[2] = "build" /\ ~trees[2].built

====
